---- MODULE Spec2Model ----
(***************************************************************************)
(* Beyond Pad: the wallet session hook (useSafeSmartWallet), the relay     *)
(* retry loop (relayTransaction) and the Editor's save and load pipelines  *)
(* (saveNoteToIPFS, loadNotesFromBlockchain), as a state machine.  Every   *)
(* await of the source is a suspension point: one action runs a handler    *)
(* from one await to the next.  Cryptography is symbolic: a signature is   *)
(* the pair (signer, message), SHA256 is injective, and AES decryption     *)
(* under the wrong passphrase has no integrity check.                      *)
(***************************************************************************)
EXTENDS Integers, Sequences, FiniteSets, TLC

\* ------------------------------------------------------------------------
\* Bounds
\* ------------------------------------------------------------------------
MaxSaves == 1   \* saves that reach the upload, per run
PreNotes == 3   \* notes registered by earlier sessions of account "a1"
MaxRuns == 2    \* checkAndDeploy / deploySafe calls, per run

\* ------------------------------------------------------------------------
\* Values
\* ------------------------------------------------------------------------
Accounts == {"a1", "a2"}          \* accounts of the browser wallet
None == "none"                    \* undefined

\* an address string: the account it denotes and its letter case
Addr(a, f) == [acct |-> a, form |-> f]
NoAddr == Addr(None, None)
ZeroAddress == Addr("zero", "lower")
toLowerCase(addr) == [addr EXCEPT !.form = "lower"]

\* the text of an address input: blank, not an address, or an address
Text(k, a, f) == [kind |-> k, acct |-> a, form |-> f]
BlankText == Text("blank", None, None)
BadText == Text("bad", None, None)
trim(t) == t.kind # "blank"       \* truthiness of t.trim()
AddrOf(t) == Addr(t.acct, t.form)

CollabInputs == {BlankText, BadText, Text("addr", "a2", "lower"),
                 Text("addr", "a2", "checksum")}
GateInputs == {BlankText, BadText, Text("addr", "nft", "lower")}

\* note texts: sequences of characters
Whitespace == {" ", "\n"}
NoteInputs == {<< >>, <<" ">>, <<"H", "\n", "W">>}
IsBlankNote(s) == \A i \in 1..Len(s) : s[i] \in Whitespace   \* !note.trim()

TitleMax == 50
UntitledNote == <<"Untitled Note">>
FirstLine(s) ==
  LET nl == {i \in 1..Len(s) : s[i] = "\n"}
      end == IF nl = {} THEN Len(s)
             ELSE (CHOOSE i \in nl : \A j \in nl : i <= j) - 1
  IN SubSeq(s, 1, end)
Substring(s, n) == SubSeq(s, 1, IF Len(s) < n THEN Len(s) ELSE n)
\* note.split("\n")[0].substring(0, 50) || "Untitled Note"
Title(s) ==
  LET t == Substring(FirstLine(s), TitleMax)
  IN IF t = << >> THEN UntitledNote ELSE t

\* ------------------------------------------------------------------------
\* Cryptography (Editor.tsx, CryptoJS and the wallet's signer)
\* ------------------------------------------------------------------------
\* `Access note ${cid} for ${userAddress.toLowerCase()}`
Message(userAddress, cid) == [cid |-> cid, addr |-> toLowerCase(userAddress)]
\* signer.signMessage(message): deterministic in (signing account, message)
signMessage(signer, message) == [signer |-> signer, msg |-> message]
SHA256(signature) == [t |-> "wk", sig |-> signature]
\* the key generateWalletKey returns when the wallet signs with `signer`
WalletKeyOf(signer, userAddress, cid) ==
  SHA256(signMessage(signer, Message(userAddress, cid)))
\* (variant for the check of C20: the wallet is asked a second time)
AskedTwice(asked, userAddress, cid) ==
  Append(Append(asked, Message(userAddress, cid)), Message(userAddress, cid))
\* generateWalletKey(cid, userAddress) hands its message to the wallet:
\* the signature requests of one save or load, in order
Asked(asked, userAddress, cid) == Append(asked, Message(userAddress, cid))

\* generateContentKey(): the n-th random key
generateContentKey(n) == [t |-> "ck", n |-> n]

\* CryptoJS.AES.encrypt(content, key).toString()
encryptContent(content, key) == [pt |-> content, key |-> key]

\* bytes that are not the plaintext: what a wrong passphrase decrypts to
Garbage == [t |-> "garbage"]
Threw == [t |-> "threw"]
\* CryptoJS.AES.decrypt(c, key).toString(Utf8): the plaintext under the
\* right key; under a wrong key the unauthenticated mode yields bytes that
\* either are not UTF-8 (toString throws) or are returned as a string.
decryptContent(encryptedContent, key) ==
  IF encryptedContent.key = key THEN {encryptedContent.pt}
  ELSE {Threw, Garbage}

\* JSON.stringify({content, timestamp, version}) and JSON.parse
Serialize(note) == [t |-> "json", content |-> note, version |-> "1.0"]
IsJson(text) == text # Garbage /\ text # Threw /\ text.t = "json"

\* ------------------------------------------------------------------------
\* State
\* ------------------------------------------------------------------------
VARIABLES
  \* the browser wallet and the chain
  signer,                \* account currently selected in window.ethereum
  chainCode,             \* accounts whose Safe has code on chain
  ipfs,                  \* pinned blobs, ipfs[cid]
  registry,              \* calls the relay accepted, in order
  \* useSafeSmartWallet state
  isAuthenticated, ownerAddress, web3Provider, safeAddress,
  accountAbstractionKit, isDeployed, loading,
  loginPc,               \* position of the login in flight
  \* Editor state
  savedNotes, isSaving, isLoadingNotes, loadedFromChain,
  sv,                    \* the save in flight (saveNoteToIPFS)
  rt,                    \* the relayTransaction call in flight or last ended
  ld,                    \* the load in flight (loadNotesFromBlockchain)
  saveCount,             \* saves that reached the upload so far
  lastToast,             \* the toast shown last
  \* deployment of the Safe
  deploySafeLoading,     \* useSafeSmartWallet state
  autoDeployAttempted,   \* App state
  effectDeps,            \* dependencies the auto-deploy effect last ran with
  cd                     \* the checkAndDeploy / deploySafe calls, cd[r]

envVars == <<signer, chainCode, ipfs, registry>>
hookVars == <<isAuthenticated, ownerAddress, web3Provider, safeAddress,
              accountAbstractionKit, isDeployed, loading, loginPc>>
editorVars == <<savedNotes, isSaving, isLoadingNotes, loadedFromChain>>
appVars == <<deploySafeLoading, autoDeployAttempted, effectDeps, cd>>
vars == <<envVars, hookVars, editorVars, sv, rt, ld, saveCount, lastToast,
          appVars>>

\* ------------------------------------------------------------------------
\* Initial state
\* ------------------------------------------------------------------------
\* what an earlier session of account "a1" left on the storage network and
\* in the registry: note c, encrypted under content key c, registered by
\* the Safe of "a1" with the key wrapped for "a1"
PreOwner == Addr("a1", "checksum")
PreBlob(c) ==
  [encryptedContent |-> encryptContent(Serialize(<<"H", "\n", "W">>),
                                       generateContentKey(c)),
   owner |-> toLowerCase(PreOwner), nftGate |-> NoAddr]
PreRecord(c) ==
  [method |-> "addNote", safe |-> "a1", cid |-> c, addr |-> ZeroAddress,
   encKey |-> encryptContent(generateContentKey(c),
                             WalletKeyOf("a1", PreOwner, c))]

IdleSave ==
  [pc |-> "idle", note |-> << >>, collab |-> BlankText, gate |-> BlankText,
   owner |-> NoAddr, deployed |-> FALSE, kit |-> None, safe |-> None,
   cid |-> 0, contentKey |-> Garbage, txHash |-> 0,
   collabFailed |-> FALSE, warned |-> FALSE, asked |-> << >>,
   result |-> "none"]
NoTx == [method |-> None, safe |-> None, cid |-> 0, addr |-> NoAddr,
         encKey |-> Garbage]
IdleRelay ==
  [status |-> "none", tx |-> NoTx, attempt |-> 0, outcomes |-> << >>,
   waits |-> << >>, error |-> None]
IdleLoad ==
  [pc |-> "idle", owner |-> NoAddr, safe |-> None, records |-> << >>,
   snap |-> << >>, i |-> 0, loadedNotes |-> << >>, visited |-> << >>,
   failed |-> {}, walletKey |-> Garbage, usedKeys |-> << >>,
   failures |-> 0, fetched |-> {}, asked |-> << >>, result |-> "none"]

\* a checkAndDeploy or deploySafe call: the session values its closure
\* captured, the status checks of its poll loop, the transactions it handed
\* to the relay, whether the Safe had code when deploySafe was called, the
\* exit it took and what it resolved with
Runs == 1..MaxRuns
IdleDeploy ==
  [pc |-> "idle", origin |-> None, kit |-> None, safe |-> None,
   provider |-> FALSE, attempts |-> 0, relays |-> 0, present |-> FALSE,
   exit |-> "none", result |-> "none"]

\* the dependency list of the auto-deploy effect; deploySafe and
\* refreshDeploymentStatus change with the values their useCallback lists
Deps ==
  <<isAuthenticated, safeAddress, deploySafeLoading, autoDeployAttempted,
    accountAbstractionKit, web3Provider>>

\* the Editor and the external services when the page is constructed
InitRest ==
  /\ signer \in Accounts
  /\ \E p \in 0..PreNotes :
       /\ ipfs = [c \in 1..p |-> PreBlob(c)]
       /\ registry = [c \in 1..p |-> PreRecord(c)]
  /\ loading = FALSE
  /\ loginPc = "idle"
  /\ savedNotes = << >>
  /\ isSaving = FALSE
  /\ isLoadingNotes = FALSE
  /\ loadedFromChain = FALSE
  /\ sv = IdleSave
  /\ rt = IdleRelay
  /\ ld = IdleLoad
  /\ saveCount = 0
  /\ lastToast = None
  /\ deploySafeLoading = FALSE
  /\ cd = [r \in Runs |-> IdleDeploy]

Init ==
  /\ InitRest
  /\ chainCode \in {{}, Accounts}
  /\ isAuthenticated = FALSE
  /\ ownerAddress = NoAddr
  /\ web3Provider = FALSE
  /\ safeAddress = None
  /\ accountAbstractionKit = None
  /\ isDeployed = FALSE
  /\ autoDeployAttempted = FALSE
  /\ effectDeps = Deps

\* The wallet session as a login leaves it: not connected; connected with
\* the Safe never initialized (login threw at aaKit.init); connected with
\* the Safe initialized and found not deployed, or found deployed.
SessionStages == {"none", "owner", "safe", "deployed"}
InitSession ==
  /\ InitRest
  /\ \E a \in Accounts, stage \in SessionStages :
       /\ stage # "none" => signer = a
       /\ isAuthenticated = (stage # "none")
       /\ ownerAddress = IF stage = "none" THEN NoAddr
                         ELSE Addr(a, "checksum")
       /\ web3Provider = (stage # "none")
       /\ safeAddress = IF stage \in {"safe", "deployed"} THEN a ELSE None
       /\ accountAbstractionKit = IF stage \in {"safe", "deployed"} THEN a
                                  ELSE None
       /\ isDeployed = (stage = "deployed")
       /\ chainCode = IF stage = "deployed" THEN Accounts ELSE {}
       /\ autoDeployAttempted = (stage \in {"safe", "deployed"})
  /\ effectDeps = Deps

\* ------------------------------------------------------------------------
\* The browser wallet
\* ------------------------------------------------------------------------
\* the user selects another account in the wallet extension
AccountsChanged ==
  /\ \E a \in Accounts \ {signer} : signer' = a
  /\ UNCHANGED <<appVars, chainCode, ipfs, registry, hookVars, editorVars, sv, rt, ld,
                 saveCount, lastToast>>

\* ------------------------------------------------------------------------
\* useSafeSmartWallet: login, disconnect
\* ------------------------------------------------------------------------
\* checkSafeDeploymentStatus: provider.getCode, or false when it throws
checkSafeDeploymentStatus(address) == {address \in chainCode, FALSE}

LoginFail ==
  /\ loading' = FALSE
  /\ loginPc' = "idle"
  /\ lastToast' = "Failed to connect"

\* login up to the first await
LoginStart ==
  /\ loginPc = "idle"
  /\ ~isAuthenticated
  /\ loading' = TRUE
  /\ loginPc' = "request"
  /\ UNCHANGED <<appVars, envVars, isAuthenticated, ownerAddress, web3Provider,
                 safeAddress, accountAbstractionKit, isDeployed, editorVars,
                 sv, rt, ld, saveCount, lastToast>>

\* eth_chainId, wallet_switchEthereumChain, eth_requestAccounts
LoginRequest ==
  /\ loginPc = "request"
  /\ \E ok \in BOOLEAN :
       IF ok
       THEN /\ web3Provider' = TRUE
            /\ loginPc' = "signer"
            /\ UNCHANGED <<appVars, loading, lastToast>>
       ELSE /\ LoginFail
            /\ UNCHANGED web3Provider
  /\ UNCHANGED <<appVars, envVars, isAuthenticated, ownerAddress, safeAddress,
                 accountAbstractionKit, isDeployed, editorVars, sv, rt, ld, saveCount>>

\* provider.getSigner(), signer.getAddress()
LoginSigner ==
  /\ loginPc = "signer"
  /\ \E ok \in BOOLEAN :
       IF ok
       THEN /\ ownerAddress' = Addr(signer, "checksum")
            /\ isAuthenticated' = TRUE
            /\ loginPc' = "init"
            /\ UNCHANGED <<appVars, loading, lastToast>>
       ELSE /\ LoginFail
            /\ UNCHANGED <<appVars, ownerAddress, isAuthenticated>>
  /\ UNCHANGED <<appVars, envVars, web3Provider, safeAddress, accountAbstractionKit,
                 isDeployed, editorVars, sv, rt, ld, saveCount>>

\* aaKit.init(), aaKit.protocolKit.getAddress()
LoginInit ==
  /\ loginPc = "init"
  /\ \E ok \in BOOLEAN :
       IF ok
       THEN /\ accountAbstractionKit' = signer
            /\ safeAddress' = signer
            /\ loginPc' = "check"
            /\ UNCHANGED <<appVars, loading, lastToast>>
       ELSE /\ LoginFail
            /\ UNCHANGED <<appVars, accountAbstractionKit, safeAddress>>
  /\ UNCHANGED <<appVars, envVars, isAuthenticated, ownerAddress, web3Provider,
                 isDeployed, editorVars, sv, rt, ld, saveCount>>

\* checkSafeDeploymentStatus(safeAddr, provider) and the end of login
LoginCheck ==
  /\ loginPc = "check"
  /\ \E d \in checkSafeDeploymentStatus(safeAddress) : isDeployed' = d
  /\ loading' = FALSE
  /\ loginPc' = "idle"
  /\ lastToast' = "Successfully connected to Safe Smart Wallet"
  /\ UNCHANGED <<appVars, envVars, isAuthenticated, ownerAddress, web3Provider,
                 safeAddress, accountAbstractionKit, editorVars, sv, rt, ld, saveCount>>

\* (variant for the check of C27: disconnecting also clears the Editor)
disconnectClearsEditor ==
  /\ isAuthenticated
  /\ isAuthenticated' = FALSE
  /\ ownerAddress' = NoAddr
  /\ web3Provider' = FALSE
  /\ safeAddress' = None
  /\ accountAbstractionKit' = None
  /\ isDeployed' = FALSE
  /\ lastToast' = "Wallet disconnected successfully"
  /\ savedNotes' = << >>
  /\ loadedFromChain' = FALSE
  /\ UNCHANGED <<appVars, envVars, loading, loginPc, isSaving, isLoadingNotes, sv, rt,
                 ld, saveCount>>

disconnect ==
  /\ isAuthenticated
  /\ isAuthenticated' = FALSE
  /\ ownerAddress' = NoAddr
  /\ web3Provider' = FALSE
  /\ safeAddress' = None
  /\ accountAbstractionKit' = None
  /\ isDeployed' = FALSE
  /\ lastToast' = "Wallet disconnected successfully"
  /\ UNCHANGED <<appVars, envVars, loading, loginPc, editorVars, sv, rt, ld, saveCount>>

\* ------------------------------------------------------------------------
\* Editor: saveNoteToIPFS, with the relayTransaction calls it makes
\* ------------------------------------------------------------------------
isValidAddress(t) == t.kind = "addr"     \* ethers.getAddress(t) returns

\* (variant for the check of C3: the collaborator address is not validated)
SaveRejectionNoCollabCheck(note, collab, gate, owner) ==
  IF IsBlankNote(note) THEN "Please enter some content before saving"
  ELSE IF owner = NoAddr THEN "Please connect your wallet first"
  ELSE IF trim(gate) /\ ~isValidAddress(gate) THEN "Invalid NFT gate address"
  ELSE None

\* the toast of the validation that rejects the save, or None
SaveRejection(note, collab, gate, owner) ==
  IF IsBlankNote(note) THEN "Please enter some content before saving"
  ELSE IF owner = NoAddr THEN "Please connect your wallet first"
  ELSE IF trim(collab) /\ ~isValidAddress(collab)
       THEN "Invalid collaborator address"
  ELSE IF trim(gate) /\ ~isValidAddress(gate) THEN "Invalid NFT gate address"
  ELSE None

cipherData(s) ==
  [encryptedContent |-> encryptContent(Serialize(s.note), s.contentKey),
   owner |-> toLowerCase(s.owner),
   nftGate |-> IF trim(s.gate) THEN toLowerCase(AddrOf(s.gate)) ELSE NoAddr]

newSavedNote(s) ==
  [cid |-> s.cid,
   title |-> Title(s.note),
   owner |-> toLowerCase(s.owner),
   collaborator |-> IF trim(s.collab) THEN toLowerCase(AddrOf(s.collab))
                    ELSE NoAddr,
   nftGate |-> IF trim(s.gate) THEN toLowerCase(AddrOf(s.gate)) ELSE NoAddr,
   txHash |-> s.txHash,
   isShared |-> trim(s.collab)]

\* the outer catch and finally of saveNoteToIPFS
SaveCatch(s, r) ==
  /\ sv' = [s EXCEPT !.pc = "idle", !.result = "failed"]
  /\ rt' = r
  /\ isSaving' = FALSE
  /\ lastToast' = "Failed to save note"
  /\ UNCHANGED savedNotes

\* step 7: the note joins the local list, then finally
SaveFinish(s, r) ==
  /\ savedNotes' = <<newSavedNote(s)>> \o savedNotes
  /\ sv' = [s EXCEPT !.pc = "idle", !.result = "saved"]
  /\ rt' = r
  /\ isSaving' = FALSE
  /\ lastToast' = "Note saved successfully"

\* the catch of the collaborator step: toast.error, then toast.warning,
\* which the toast library imported at Editor.tsx:7 need not provide; when
\* it is undefined the call throws out of the handler into the outer catch
CollabCatch(s, r) ==
  \E warningThrows \in BOOLEAN :
    IF warningThrows
    THEN SaveCatch([s EXCEPT !.collabFailed = TRUE], r)
    ELSE SaveFinish([s EXCEPT !.collabFailed = TRUE, !.warned = TRUE], r)

\* step 6: the collaborator step up to its first await, or step 7
CollabStep(s, r) ==
  IF trim(s.collab)
  THEN /\ sv' = [s EXCEPT !.pc = "signCollab",
                          !.asked = Asked(@, AddrOf(s.collab), s.cid)]
       /\ rt' = r
       /\ lastToast' = "Adding collaborator..."
       /\ UNCHANGED <<appVars, savedNotes, isSaving>>
  ELSE SaveFinish(s, r)

\* relayTransaction: the retry policy
maxRetries == 3
\* (variant for the check of C2: every error counts as a rate limit)
IsRateLimitAnyError(message) == TRUE
\* error.message.includes("Too many requests") || includes("429")
IsRateLimit(message) == message \in {"Too many requests", "429"}
\* (variant for the check of C1: the last attempt is retried as well)
ShouldRetryOffByOne(attempt, message) ==
  IsRateLimit(message) /\ attempt <= maxRetries
ShouldRetry(attempt, message) == IsRateLimit(message) /\ attempt < maxRetries
RECURSIVE Pow(_, _)
Pow(b, e) == IF e = 0 THEN 1 ELSE b * Pow(b, e - 1)
\* (variant for the check of C17: the exponent counts from zero)
delayMsFromZero(attempt) == Pow(2, attempt - 1) * 1000
delayMs(attempt) == Pow(2, attempt) * 1000
RelayOutcomes == {"ok", "Too many requests", "429", "Network Error"}
\* (variant for the check of C24: the loop does not return on a result)
RelayReturnsNever(outcome) == FALSE
\* the awaited relay call yields a result: `return result`
RelayReturns(outcome) == outcome = "ok"

\* relayTransaction(txData) up to its first await: the initialization guard
\* throws, or the first submission is under way
RelayInitialized(s) == s.kit # None /\ s.safe # None
RelayThrew(r, tx, message) ==
  [r EXCEPT !.status = "threw", !.tx = tx, !.error = message]
RelayBegun(tx) ==
  [IdleRelay EXCEPT !.status = "submitting", !.tx = tx, !.attempt = 1]

\* saveNoteToIPFS up to the upload
SaveStart ==
  /\ sv.pc = "idle"
  /\ \E note \in NoteInputs, collab \in CollabInputs, gate \in GateInputs :
       LET why == SaveRejection(note, collab, gate, ownerAddress)
       IN IF why # None
          THEN /\ lastToast' = why
               /\ UNCHANGED <<appVars, sv, isSaving, saveCount>>
          ELSE /\ saveCount < MaxSaves
               /\ sv' = [IdleSave EXCEPT
                           !.pc = "upload", !.note = note, !.collab = collab,
                           !.gate = gate, !.owner = ownerAddress,
                           !.deployed = isDeployed,
                           !.kit = accountAbstractionKit,
                           !.safe = safeAddress,
                           !.contentKey = generateContentKey(Len(ipfs) + 1)]
               /\ isSaving' = TRUE
               /\ saveCount' = saveCount + 1
               /\ lastToast' = "Uploading encrypted note to IPFS..."
  /\ UNCHANGED <<appVars, envVars, hookVars, savedNotes, isLoadingNotes,
                 loadedFromChain, rt, ld>>

\* uploadToIPFS returns or throws; generateWalletKey(owner) begins
SaveUploaded ==
  /\ sv.pc = "upload"
  /\ \E ok \in BOOLEAN :
       IF ok
       THEN /\ ipfs' = Append(ipfs, cipherData(sv))
            /\ sv' = [sv EXCEPT !.cid = Len(ipfs) + 1, !.pc = "signOwner",
                                !.asked = Asked(@, sv.owner, Len(ipfs) + 1)]
            /\ lastToast' = "Note uploaded to IPFS successfully!"
            /\ UNCHANGED <<appVars, rt, savedNotes, isSaving>>
       ELSE /\ SaveCatch(sv, rt)
            /\ UNCHANGED ipfs
  /\ UNCHANGED <<appVars, signer, chainCode, registry, hookVars, isLoadingNotes,
                 loadedFromChain, ld, saveCount>>

\* the owner's signature arrives or is refused; step 5 (addNote) begins
SaveOwnerSigned ==
  /\ sv.pc = "signOwner"
  /\ \E ok \in BOOLEAN :
       IF ok
       THEN LET ownerWalletKey == WalletKeyOf(signer, sv.owner, sv.cid)
                tx == [method |-> "addNote", safe |-> sv.kit, cid |-> sv.cid,
                       addr |-> IF trim(sv.gate) THEN AddrOf(sv.gate)
                                ELSE ZeroAddress,
                       encKey |-> encryptContent(sv.contentKey,
                                                 ownerWalletKey)]
            IN IF sv.deployed
               THEN IF RelayInitialized(sv)
                    THEN /\ sv' = [sv EXCEPT !.pc = "relayNote"]
                         /\ rt' = RelayBegun(tx)
                         /\ lastToast' = "Submitting transaction..."
                         /\ UNCHANGED <<appVars, savedNotes, isSaving>>
                    ELSE SaveCatch(sv, RelayThrew(IdleRelay, tx,
                                                  "not initialized"))
               ELSE CollabStep(sv, rt)
       ELSE SaveCatch(sv, rt)
  /\ UNCHANGED <<appVars, envVars, hookVars, isLoadingNotes, loadedFromChain, ld,
                 saveCount>>

\* the collaborator key's signature arrives or is refused; addCollaborator
SaveCollabSigned ==
  /\ sv.pc = "signCollab"
  /\ \E ok \in BOOLEAN :
       IF ok
       THEN LET collaboratorWalletKey ==
                  WalletKeyOf(signer, AddrOf(sv.collab), sv.cid)
                tx == [method |-> "addCollaborator", safe |-> sv.kit,
                       cid |-> sv.cid,
                       addr |-> toLowerCase(AddrOf(sv.collab)),
                       encKey |-> encryptContent(sv.contentKey,
                                                 collaboratorWalletKey)]
            IN IF RelayInitialized(sv)
               THEN /\ sv' = [sv EXCEPT !.pc = "relayCollab"]
                    /\ rt' = RelayBegun(tx)
                    /\ lastToast' = "Submitting transaction..."
                    /\ UNCHANGED <<appVars, savedNotes, isSaving>>
               ELSE CollabCatch(sv, RelayThrew(IdleRelay, tx,
                                               "not initialized"))
       ELSE CollabCatch(sv, rt)
  /\ UNCHANGED <<appVars, envVars, hookVars, isLoadingNotes, loadedFromChain, ld,
                 saveCount>>

\* one submission to the relay settles: return, back off, or throw
RelayAttempt ==
  /\ rt.status = "submitting"
  /\ sv.pc \in {"relayNote", "relayCollab"}
  /\ \E outcome \in RelayOutcomes :
       LET seen == [rt EXCEPT !.outcomes = Append(@, outcome)]
       IN IF RelayReturns(outcome)
          THEN LET r == [seen EXCEPT !.status = "returned"]
                   taskId == Len(registry) + 1
               IN /\ registry' = Append(registry, rt.tx)
                  /\ IF sv.pc = "relayNote"
                     THEN CollabStep([sv EXCEPT !.txHash = taskId], r)
                     ELSE SaveFinish(sv, r)
          ELSE /\ UNCHANGED registry
               /\ IF ShouldRetry(rt.attempt, outcome)
                  THEN /\ rt' = [seen EXCEPT
                                   !.status = "backoff",
                                   !.waits = Append(@, delayMs(rt.attempt))]
                       /\ lastToast' = "Rate limited. Retrying"
                       /\ UNCHANGED <<appVars, sv, savedNotes, isSaving>>
                  ELSE LET r == [seen EXCEPT
                                   !.status = "threw",
                                   !.error = IF IsRateLimit(outcome)
                                             THEN "rate limiting"
                                             ELSE "Transaction failed"]
                       IN IF sv.pc = "relayNote"
                          THEN SaveCatch(sv, r)
                          ELSE CollabCatch(sv, r)
  /\ UNCHANGED <<appVars, signer, chainCode, ipfs, hookVars, isLoadingNotes,
                 loadedFromChain, ld, saveCount>>

\* the backoff timer fires: the next attempt is submitted
RelayBackoff ==
  /\ rt.status = "backoff"
  /\ rt' = [rt EXCEPT !.status = "submitting", !.attempt = @ + 1]
  /\ UNCHANGED <<appVars, envVars, hookVars, editorVars, sv, ld, saveCount, lastToast>>

\* ------------------------------------------------------------------------
\* Editor: loadNotesFromBlockchain
\* ------------------------------------------------------------------------
\* getUserNotes: contract.getNotes(queryAddress), the notes the Safe added
getNotes(queryAddress) ==
  SelectSeq(registry,
            LAMBDA r : r.method = "addNote" /\ r.safe = queryAddress)

Cids(notes) == {notes[k].cid : k \in 1..Len(notes)}
\* savedNotes.find((note) => note.cid === cid)?.txHash
TxHashIn(notes, cid) ==
  IF cid \in Cids(notes)
  THEN notes[CHOOSE k \in 1..Len(notes) :
               /\ notes[k].cid = cid
               /\ \A j \in 1..(k - 1) : notes[j].cid # cid].txHash
  ELSE 0

\* (variant for the check of C15: the title is the whole content)
loadedNoteWholeContent(l, rec, noteData) ==
  [cid |-> rec.cid,
   title |-> noteData.content,
   owner |-> toLowerCase(l.owner),
   collaborator |-> NoAddr,
   nftGate |-> IF rec.addr # ZeroAddress THEN Addr(rec.addr.acct, "checksum")
               ELSE NoAddr,
   txHash |-> TxHashIn(l.snap, rec.cid),
   isShared |-> FALSE]

\* the SavedNote the loop builds from record rec and the parsed noteData
loadedNote(l, rec, noteData) ==
  [cid |-> rec.cid,
   title |-> Title(noteData.content),
   owner |-> toLowerCase(l.owner),
   collaborator |-> NoAddr,
   nftGate |-> IF rec.addr # ZeroAddress THEN Addr(rec.addr.acct, "checksum")
               ELSE NoAddr,
   txHash |-> TxHashIn(l.snap, rec.cid),
   isShared |-> FALSE]

\* (variant for the check of C19: the merge does not filter)
MergeNotesNoFilter(prev, loadedNotes) == loadedNotes \o prev

\* the functional update of setSavedNotes at the end of the load
MergeNotes(prev, loadedNotes) ==
  LET existingCids == Cids(prev)
      mergedNotes == [k \in 1..Len(loadedNotes) |->
                        IF loadedNotes[k].cid \in existingCids
                        THEN [loadedNotes[k] EXCEPT
                                !.txHash = TxHashIn(prev, loadedNotes[k].cid)]
                        ELSE loadedNotes[k]]
      uniqueLoadedNotes ==
        SelectSeq(mergedNotes, LAMBDA n : n.cid \notin existingCids)
  IN uniqueLoadedNotes \o prev

\* (variant for the check of C22: the loop moves on without settling the
\* record)
RecordFailedUnsettled(l) == [l EXCEPT !.failures = @ + 1]
\* the catch of the per-record try: one toast.error for record l.i
RecordFailed(l) ==
  [l EXCEPT !.failed = @ \cup {l.i}, !.failures = @ + 1]

\* (variant for the check of C10: a failed record ends the loop)
NextRecordBreak(l) ==
  IF l.i < Len(l.records) /\ l.failures = ld.failures
  THEN /\ ld' = [l EXCEPT !.i = @ + 1, !.visited = Append(@, l.i + 1),
                          !.pc = "fetch"]
       /\ UNCHANGED <<appVars, savedNotes, isLoadingNotes, loadedFromChain, lastToast>>
  ELSE /\ ld' = [l EXCEPT !.pc = "idle", !.result = "loaded"]
       /\ savedNotes' = MergeNotes(savedNotes, l.loadedNotes)
       /\ loadedFromChain' = TRUE
       /\ isLoadingNotes' = FALSE
       /\ lastToast' = "Successfully loaded notes from blockchain!"

\* (variant for the check of C28: the latch is set only when no record
\* failed)
NextRecordLatchIfClean(l) ==
  IF l.i < Len(l.records)
  THEN /\ ld' = [l EXCEPT !.i = @ + 1, !.visited = Append(@, l.i + 1),
                          !.pc = "fetch"]
       /\ lastToast' = IF l.failures > ld.failures
                       THEN "Failed to decrypt note" ELSE lastToast
       /\ UNCHANGED <<appVars, savedNotes, isLoadingNotes, loadedFromChain>>
  ELSE /\ ld' = [l EXCEPT !.pc = "idle", !.result = "loaded"]
       /\ savedNotes' = MergeNotes(savedNotes, l.loadedNotes)
       /\ loadedFromChain' = (l.failures = 0)
       /\ isLoadingNotes' = FALSE
       /\ lastToast' = "Successfully loaded notes from blockchain!"

\* the loop goes on to record i + 1, or ends: merge, latch, finally
NextRecord(l) ==
  IF l.i < Len(l.records)
  THEN /\ ld' = [l EXCEPT !.i = @ + 1, !.visited = Append(@, l.i + 1),
                          !.pc = "fetch"]
       /\ lastToast' = IF l.failures > ld.failures
                       THEN "Failed to decrypt note" ELSE lastToast
       /\ UNCHANGED <<appVars, savedNotes, isLoadingNotes, loadedFromChain>>
  ELSE /\ ld' = [l EXCEPT !.pc = "idle", !.result = "loaded"]
       /\ savedNotes' = MergeNotes(savedNotes, l.loadedNotes)
       /\ loadedFromChain' = TRUE
       /\ isLoadingNotes' = FALSE
       /\ lastToast' = "Successfully loaded notes from blockchain!"

\* (variant for the check of C12: the latch is not consulted)
LoadStartNoLatch ==
  /\ isAuthenticated
  /\ ~isLoadingNotes
  /\ IF ownerAddress = NoAddr \/ safeAddress = None \/ ~web3Provider
     THEN /\ lastToast' = IF safeAddress = None
                          THEN "Safe address not available" ELSE lastToast
          /\ UNCHANGED <<appVars, ld, isLoadingNotes>>
     ELSE /\ isLoadingNotes' = TRUE
          /\ ld' = [IdleLoad EXCEPT !.pc = "query", !.owner = ownerAddress,
                                    !.safe = safeAddress, !.snap = savedNotes]
          /\ lastToast' = "Loading your notes from blockchain..."
  /\ UNCHANGED <<appVars, envVars, hookVars, savedNotes, isSaving, loadedFromChain,
                 sv, rt, saveCount>>

\* loadNotesFromBlockchain up to the registry query
LoadStart ==
  /\ isAuthenticated
  /\ ~isLoadingNotes
  /\ IF ownerAddress = NoAddr \/ safeAddress = None \/ ~web3Provider
     THEN /\ lastToast' = IF safeAddress = None
                          THEN "Safe address not available" ELSE lastToast
          /\ UNCHANGED <<appVars, ld, isLoadingNotes>>
     ELSE IF loadedFromChain
     THEN /\ lastToast' = "Notes already loaded from blockchain"
          /\ UNCHANGED <<appVars, ld, isLoadingNotes>>
     ELSE /\ isLoadingNotes' = TRUE
          /\ ld' = [IdleLoad EXCEPT !.pc = "query", !.owner = ownerAddress,
                                    !.safe = safeAddress, !.snap = savedNotes]
          /\ lastToast' = "Loading your notes from blockchain..."
  /\ UNCHANGED <<appVars, envVars, hookVars, savedNotes, isSaving, loadedFromChain,
                 sv, rt, saveCount>>

\* (variant for the check of C21: the hook queries with the owner's own
\* address, under which the registry holds nothing)
queryAddressOfOwner(hookSafe, userAddress) == "owner"
\* getUserNotes(userAddress): the hook's own safeAddress comes first
queryAddress(hookSafe, userAddress) ==
  IF hookSafe # None THEN hookSafe ELSE userAddress

\* getUserNotes(safeAddress) returns or throws
LoadQueried ==
  /\ ld.pc = "query"
  /\ \E ok \in BOOLEAN :
       IF ok
       THEN LET records == getNotes(queryAddress(ld.safe, ld.safe))
            IN IF Len(records) = 0
               THEN /\ ld' = [ld EXCEPT !.pc = "idle", !.result = "empty"]
                    /\ loadedFromChain' = TRUE
                    /\ isLoadingNotes' = FALSE
                    /\ lastToast' = "No notes found on blockchain"
               ELSE /\ ld' = [ld EXCEPT !.records = records, !.i = 1,
                                        !.visited = <<1>>, !.pc = "fetch"]
                    /\ UNCHANGED <<appVars, loadedFromChain, isLoadingNotes,
                                   lastToast>>
       ELSE /\ ld' = [ld EXCEPT !.pc = "idle", !.result = "failed"]
            /\ isLoadingNotes' = FALSE
            /\ lastToast' = "Failed to load notes"
            /\ UNCHANGED loadedFromChain
  /\ UNCHANGED <<appVars, envVars, hookVars, savedNotes, isSaving, sv, rt, saveCount>>

\* fetchFromIPFS(cid) returns or throws; generateWalletKey(owner) begins
LoadFetched ==
  /\ ld.pc = "fetch"
  /\ \E ok \in BOOLEAN :
       IF ok
       THEN /\ ld' = [ld EXCEPT !.pc = "sign",
                                !.fetched = @ \cup {ld.i},
                                !.asked = Asked(@, ld.owner,
                                                ld.records[ld.i].cid)]
            /\ UNCHANGED <<appVars, savedNotes, isLoadingNotes, loadedFromChain,
                           lastToast>>
       ELSE NextRecord(RecordFailed(ld))
  /\ UNCHANGED <<appVars, envVars, hookVars, isSaving, sv, rt, saveCount>>

\* the signature arrives or is refused; unwrap, decrypt, parse, push
LoadSigned ==
  /\ ld.pc = "sign"
  /\ \E ok \in BOOLEAN :
       IF ok
       THEN LET rec == ld.records[ld.i]
                ipfsData == ipfs[rec.cid]
                walletKey == WalletKeyOf(signer, ld.owner, rec.cid)
                l1 == [ld EXCEPT !.walletKey = walletKey]
            IN \E decryptedContentKey \in decryptContent(rec.encKey,
                                                         walletKey) :
                 IF decryptedContentKey = Threw
                 THEN NextRecord(RecordFailed(l1))
                 ELSE LET l2 == [l1 EXCEPT !.usedKeys =
                                             Append(@, decryptedContentKey)]
                      IN \E decryptedNote \in
                              decryptContent(ipfsData.encryptedContent,
                                             decryptedContentKey) :
                           IF IsJson(decryptedNote)
                           THEN NextRecord(
                                  [l2 EXCEPT !.loadedNotes =
                                     Append(@, loadedNote(l2, rec,
                                                          decryptedNote))])
                           ELSE NextRecord(RecordFailed(l2))
       ELSE NextRecord(RecordFailed(ld))
  /\ UNCHANGED <<appVars, envVars, hookVars, isSaving, sv, rt, saveCount>>

\* ------------------------------------------------------------------------
\* useSafeSmartWallet: deploySafe; App: the auto-deploy effect
\* ------------------------------------------------------------------------
maxAttempts == 10

\* the effect has run for the values of the last render
EffectSettled == effectDeps = Deps
\* no modal covers the page: WalletConnectionModal is open while loading,
\* DeployingWalletModal while deploySafeLoading
NoModal == ~loading /\ ~deploySafeLoading

FirstFree(r) ==
  /\ cd[r].pc = "idle"
  /\ \A q \in Runs : q < r => cd[q].pc # "idle"

\* a call starts with the session values of the render that created the
\* callbacks it uses
Captured(origin) ==
  [IdleDeploy EXCEPT !.origin = origin, !.kit = accountAbstractionKit,
                     !.safe = safeAddress, !.provider = web3Provider]

\* React runs the effect after a render that changed a dependency;
\* checkAndDeploy runs up to its await of refreshDeploymentStatus
EffectRun ==
  /\ ~EffectSettled
  /\ effectDeps' = Deps
  /\ IF /\ isAuthenticated /\ safeAddress # None
        /\ ~deploySafeLoading /\ ~autoDeployAttempted
        /\ \E r \in Runs : cd[r].pc = "idle"
     THEN \E r \in Runs :
            /\ FirstFree(r)
            /\ cd' = [cd EXCEPT ![r] =
                        [Captured("effect") EXCEPT !.pc = "refresh"]]
     ELSE UNCHANGED cd
  /\ UNCHANGED <<envVars, hookVars, editorVars, sv, rt, ld, saveCount,
                 lastToast, deploySafeLoading, autoDeployAttempted>>

\* the end of a deploySafe call; checkAndDeploy, when it awaited the call,
\* goes on in the same turn of the event loop to setAutoDeployAttempted
DeployEnd(r, run, exit, result, flag) ==
  /\ cd' = [cd EXCEPT ![r] =
              [run EXCEPT !.pc = "done", !.exit = exit, !.result = result]]
  /\ deploySafeLoading' = flag
  /\ autoDeployAttempted' = (autoDeployAttempted \/ run.origin = "effect")

\* deploySafe up to its first await: the flag is set, then the guard throws
\* outside the try, or the call awaits the already-deployed check
deploySafe(r, run) ==
  IF run.kit = None \/ run.safe = None \/ ~run.provider
  THEN /\ DeployEnd(r, run, "uninitialized", "threw", TRUE)
       /\ lastToast' =
            "Account Abstraction Kit or Safe address not initialized"
  ELSE /\ cd' = [cd EXCEPT ![r] =
                   [run EXCEPT !.pc = "precheck",
                               !.present = run.safe \in chainCode]]
       /\ deploySafeLoading' = TRUE
       /\ UNCHANGED <<autoDeployAttempted, lastToast>>

\* checkAndDeploy after refreshDeploymentStatus: deployed, it sets the
\* latch; not deployed, it calls deploySafe
CheckAndDeployRefreshed(r) ==
  /\ cd[r].pc = "refresh"
  /\ \E d \in (IF cd[r].safe = None \/ ~cd[r].provider THEN {FALSE}
                ELSE checkSafeDeploymentStatus(cd[r].safe)) :
       /\ IF cd[r].safe = None \/ ~cd[r].provider
          THEN UNCHANGED isDeployed
          ELSE isDeployed' = d
       /\ IF d
          THEN /\ cd' = [cd EXCEPT ![r].pc = "done", ![r].exit = "skipped"]
               /\ autoDeployAttempted' = TRUE
               /\ UNCHANGED <<deploySafeLoading, lastToast>>
          ELSE deploySafe(r, cd[r])
  /\ UNCHANGED <<envVars, isAuthenticated, ownerAddress, web3Provider,
                 safeAddress, accountAbstractionKit, loading, loginPc,
                 editorVars, sv, rt, ld, saveCount, effectDeps>>

\* deploySafe called by a consumer of the hook with the callback of the
\* last render
DeploySafeCall(r) ==
  /\ FirstFree(r)
  /\ deploySafe(r, Captured("direct"))
  /\ UNCHANGED <<envVars, hookVars, editorVars, sv, rt, ld, saveCount,
                 effectDeps>>

\* deploySafe after its already-deployed check
DeployPrechecked(r) ==
  /\ cd[r].pc = "precheck"
  /\ \E alreadyDeployed \in checkSafeDeploymentStatus(cd[r].safe) :
       /\ isDeployed' = alreadyDeployed
       /\ IF alreadyDeployed
          THEN /\ DeployEnd(r, cd[r], "already", cd[r].safe, FALSE)
               /\ lastToast' = "Safe wallet is already deployed"
          ELSE /\ cd' = [cd EXCEPT ![r].pc = "relay"]
               /\ lastToast' = "Deploying Safe wallet..."
               /\ UNCHANGED <<deploySafeLoading, autoDeployAttempted>>
  /\ UNCHANGED <<envVars, isAuthenticated, ownerAddress, web3Provider,
                 safeAddress, accountAbstractionKit, loading, loginPc,
                 editorVars, sv, rt, ld, saveCount, effectDeps>>

\* deploySafe after accountAbstractionKit.relayTransaction: the relay took
\* the transaction and the poll loop starts, or the call threw
DeployRelayed(r) ==
  /\ cd[r].pc = "relay"
  /\ \E ok \in BOOLEAN :
       IF ok
       THEN /\ cd' = [cd EXCEPT ![r].pc = "poll",
                                ![r].relays = cd[r].relays + 1]
            /\ UNCHANGED <<deploySafeLoading, autoDeployAttempted,
                           lastToast>>
       ELSE /\ DeployEnd(r, cd[r], "error", "threw", FALSE)
            /\ lastToast' = "Failed to deploy Safe wallet"
  /\ UNCHANGED <<envVars, hookVars, editorVars, sv, rt, ld, saveCount,
                 effectDeps>>

\* one round of the poll loop: the 3 s wait and the status check, and when
\* the loop ends the rest of deploySafe; toast has no warning function
DeployPolled(r) ==
  /\ cd[r].pc = "poll"
  /\ \E d \in checkSafeDeploymentStatus(cd[r].safe) :
       LET run == [cd[r] EXCEPT !.attempts = cd[r].attempts + 1] IN
       /\ isDeployed' = d
       /\ IF ~d /\ run.attempts < maxAttempts
          THEN /\ cd' = [cd EXCEPT ![r] = run]
               /\ UNCHANGED <<deploySafeLoading, autoDeployAttempted,
                              lastToast>>
          ELSE IF d
          THEN /\ DeployEnd(r, run, "confirmed", run.safe, FALSE)
               /\ lastToast' = "Safe wallet deployed successfully!"
          ELSE \E warningThrows \in BOOLEAN :
                 IF warningThrows
                 THEN /\ DeployEnd(r, run, "pending", "threw", FALSE)
                      /\ lastToast' = "Failed to deploy Safe wallet"
                 ELSE /\ DeployEnd(r, run, "pending", run.safe, FALSE)
                      /\ lastToast' =
                           "Safe deployment initiated but confirmation pending"
  /\ UNCHANGED <<envVars, isAuthenticated, ownerAddress, web3Provider,
                 safeAddress, accountAbstractionKit, loading, loginPc,
                 editorVars, sv, rt, ld, saveCount, effectDeps>>

\* the chain executes a transaction the relay took: the Safe gets its code
Mined ==
  /\ \E r \in Runs :
       /\ cd[r].relays > 0
       /\ cd[r].safe \notin chainCode
       /\ chainCode' = chainCode \cup {cd[r].safe}
  /\ UNCHANGED <<signer, ipfs, registry, hookVars, editorVars, sv, rt, ld,
                 saveCount, lastToast, appVars>>

\* ------------------------------------------------------------------------
\* A fresh session
\* ------------------------------------------------------------------------
\* the page is loaded anew: App, the hook and the Editor are constructed
\* again with their useState initial values, the handlers of the old page
\* are gone, and the storage network, the registry and the wallet remain
PageReload ==
  /\ isAuthenticated' = FALSE
  /\ ownerAddress' = NoAddr
  /\ web3Provider' = FALSE
  /\ safeAddress' = None
  /\ accountAbstractionKit' = None
  /\ isDeployed' = FALSE
  /\ loading' = FALSE
  /\ loginPc' = "idle"
  /\ savedNotes' = << >>
  /\ isSaving' = FALSE
  /\ isLoadingNotes' = FALSE
  /\ loadedFromChain' = FALSE
  /\ sv' = IdleSave
  /\ rt' = IdleRelay
  /\ ld' = IdleLoad
  /\ lastToast' = None
  /\ deploySafeLoading' = FALSE
  /\ autoDeployAttempted' = FALSE
  /\ effectDeps' = <<FALSE, None, FALSE, FALSE, None, FALSE>>
  /\ cd' = [r \in Runs |-> IdleDeploy]
  /\ UNCHANGED <<envVars, saveCount>>

\* ------------------------------------------------------------------------
\* Specification
\* ------------------------------------------------------------------------
Next ==
  \/ AccountsChanged
  \/ LoginStart \/ LoginRequest \/ LoginSigner \/ LoginInit \/ LoginCheck
  \/ disconnect
  \/ SaveStart \/ SaveUploaded \/ SaveOwnerSigned \/ SaveCollabSigned
  \/ RelayAttempt \/ RelayBackoff
  \/ LoadStart \/ LoadQueried \/ LoadFetched \/ LoadSigned

Spec == Init /\ [][Next]_vars

\* the wallet session alone
NextSession ==
  \/ AccountsChanged
  \/ LoginStart \/ LoginRequest \/ LoginSigner \/ LoginInit \/ LoginCheck
  \/ disconnect
SpecSession == Init /\ [][NextSession]_vars

\* a save runs on the session values its handler captured when it was
\* invoked, so the saves are explored from every session a login leaves
NextSave ==
  \/ AccountsChanged
  \/ SaveStart \/ SaveUploaded \/ SaveOwnerSigned \/ SaveCollabSigned
  \/ RelayAttempt \/ RelayBackoff
\* (the two accounts are interchangeable and the registry's earlier records
\* play no part in a save: account "a1" connects to an empty registry)
InitSave ==
  /\ InitSession
  /\ ownerAddress.acct \in {None, "a1"}
  /\ registry = << >>
SpecSave == InitSave /\ [][NextSave]_vars

\* the saves of a user who never switches the wallet's account
NextSaveSameWallet ==
  \/ SaveStart \/ SaveUploaded \/ SaveOwnerSigned \/ SaveCollabSigned
  \/ RelayAttempt \/ RelayBackoff
SpecSaveSameWallet == InitSave /\ [][NextSaveSameWallet]_vars

\* likewise the loads
NextLoad ==
  \/ AccountsChanged
  \/ LoadStart \/ LoadQueried \/ LoadFetched \/ LoadSigned
SpecLoad == InitSession /\ [][NextLoad]_vars

\* a save and a load of one session in flight together: the load button and
\* the auto-load effect are not disabled while a save runs
NextSaveLoad ==
  \/ SaveStart \/ SaveUploaded \/ SaveOwnerSigned \/ SaveCollabSigned
  \/ RelayAttempt \/ RelayBackoff
  \/ LoadStart \/ LoadQueried \/ LoadFetched \/ LoadSigned
SpecSaveLoad == InitSave /\ [][NextSaveLoad]_vars

\* sessions one after the other on one wallet account, used one operation
\* at a time: the user connects, saves or loads only when the operation
\* before has ended, and may reload the page at any moment; the save
\* button is pressed no more once MaxSaves saves have reached the upload
Quiet == loginPc = "idle" /\ sv.pc = "idle" /\ ld.pc = "idle"
NextSequential ==
  \/ Quiet /\ LoginStart
  \/ LoginRequest \/ LoginSigner \/ LoginInit \/ LoginCheck
  \/ Quiet /\ saveCount < MaxSaves /\ SaveStart
  \/ SaveUploaded \/ SaveOwnerSigned \/ SaveCollabSigned
  \/ RelayAttempt \/ RelayBackoff
  \/ Quiet /\ LoadStart
  \/ LoadQueried \/ LoadFetched \/ LoadSigned
  \/ PageReload
\* (account "a1", its Safe deployed, nothing or one note registered by an
\* earlier session)
InitSequential ==
  /\ Init
  /\ signer = "a1"
  /\ chainCode = Accounts
  /\ Len(registry) <= 1
SpecSequential == InitSequential /\ [][NextSequential]_vars

\* the loads of a page on which the user connects, disconnects, switches
\* the wallet's account and connects again
NextLoadSession ==
  \/ AccountsChanged
  \/ LoginStart \/ LoginRequest \/ LoginSigner \/ LoginInit \/ LoginCheck
  \/ disconnect
  \/ LoadStart \/ LoadQueried \/ LoadFetched \/ LoadSigned
SpecLoadSession == Init /\ [][NextLoadSession]_vars

\* the App's automatic deployment: the session, the effect after every
\* render, the calls it starts, and the chain; the user reaches the Navbar
\* only while no modal is open
NextApp ==
  \/ EffectRun
  \/ EffectSettled /\ NoModal /\ LoginStart
  \/ EffectSettled /\ LoginRequest
  \/ EffectSettled /\ LoginSigner
  \/ EffectSettled /\ LoginInit
  \/ EffectSettled /\ LoginCheck
  \/ EffectSettled /\ NoModal /\ disconnect
  \/ EffectSettled /\ \E r \in Runs : CheckAndDeployRefreshed(r)
  \/ EffectSettled /\ \E r \in Runs : DeployPrechecked(r)
  \/ EffectSettled /\ \E r \in Runs : DeployRelayed(r)
  \/ EffectSettled /\ \E r \in Runs : DeployPolled(r)
  \/ EffectSettled /\ Mined
InitApp == Init /\ signer = "a1" /\ registry = << >>
SpecApp == InitApp /\ [][NextApp]_vars

\* deploySafe as the hook exports it, called at any time
NextHook ==
  \/ LoginStart \/ LoginRequest \/ LoginSigner \/ LoginInit \/ LoginCheck
  \/ disconnect
  \/ \E r \in Runs : DeploySafeCall(r)
  \/ \E r \in Runs : DeployPrechecked(r)
  \/ \E r \in Runs : DeployRelayed(r)
  \/ \E r \in Runs : DeployPolled(r)
  \/ Mined
SpecHook == InitApp /\ [][NextHook]_vars

\* ------------------------------------------------------------------------
\* Properties
\* ------------------------------------------------------------------------
RateLimitMessages == {"Too many requests", "429"}
AllRateLimited(r) ==
  \A k \in 1..Len(r.outcomes) : r.outcomes[k] \in RateLimitMessages
RelayEnded(r) == r.status \in {"returned", "threw"}

\* C1: a relayTransaction call whose every relay submission fails with a
\* rate-limit error invokes the relay exactly 3 times and then throws the
\* terminal rate-limit error; no call ever makes a 4th submission.
C1_RetryBound ==
  /\ rt.attempt <= 3
  /\ Len(rt.outcomes) <= 3
  /\ (RelayEnded(rt) /\ rt.attempt >= 1 /\ AllRateLimited(rt))
       => /\ Len(rt.outcomes) = 3
          /\ rt.attempt = 3
          /\ rt.status = "threw"
          /\ rt.error = "rate limiting"
C1_Witness ==
  /\ rt.status = "threw"
  /\ Len(rt.outcomes) = 3
  /\ AllRateLimited(rt)

\* C2: a submission that fails with an error that is not a rate limit, on
\* whichever attempt, is the last one of its call: the call throws at once,
\* with no further submission and no backoff wait after that failure.
C2_OtherErrorNotRetried ==
  \A k \in 1..Len(rt.outcomes) :
    rt.outcomes[k] = "Network Error"
      => /\ k = Len(rt.outcomes)
         /\ rt.attempt = k
         /\ rt.status = "threw"
         /\ rt.error = "Transaction failed"
         /\ Len(rt.waits) = k - 1
C2_Witness ==
  /\ rt.status = "threw"
  /\ Len(rt.outcomes) = 2
  /\ rt.outcomes[2] = "Network Error"
  /\ rt.waits = <<2000>>

\* C3: a save whose content is blank, or whose non-blank collaborator or
\* gate address is not well formed, ends at the validation: no save is ever
\* in flight or ended with such inputs, and the step that shows the
\* rejection leaves the save, the uploads, the relay, the registry, the
\* local list and isSaving as they were.
ValidSaveInputs ==
  (sv.pc # "idle" \/ sv.result # "none" \/ isSaving)
    => /\ ~IsBlankNote(sv.note)
       /\ sv.collab.kind \in {"blank", "addr"}
       /\ sv.gate.kind \in {"blank", "addr"}
InvalidInputToasts ==
  {"Please enter some content before saving", "Invalid collaborator address",
   "Invalid NFT gate address"}
C3_InvalidInputFailsFast ==
  [][/\ ValidSaveInputs'
     /\ (lastToast' \in InvalidInputToasts /\ lastToast' # lastToast)
          => UNCHANGED <<appVars, sv, rt, ipfs, registry, savedNotes, isSaving,
                         saveCount>>]_vars
C3_Witness ==
  /\ lastToast = "Invalid collaborator address"
  /\ ownerAddress # NoAddr
  /\ sv.pc = "idle"
  /\ ~isSaving

\* C4: every wrapped key a save registers for a recipient is wrapped under
\* a key that no other signing account can derive: the wallet key another
\* account derives for (recipient, cid) does not unwrap the record.
Recipient(rec) == rec.encKey.key.sig.msg.addr
C4_OnlyRecipientUnwraps ==
  \A k \in 1..Len(registry) :
    \A a \in Accounts \ {Recipient(registry[k]).acct} :
      decryptContent(registry[k].encKey,
                     WalletKeyOf(a, Recipient(registry[k]), registry[k].cid))
        # {registry[k].encKey.pt}

\* C5: the wallet key the collaborator derives with the collaborator's own
\* signer for (collaborator address, cid) unwraps the addCollaborator
\* record to the content key that encrypted the note.
C5_CollaboratorUnwraps ==
  \A k \in 1..Len(registry) :
    registry[k].method = "addCollaborator"
      => decryptContent(registry[k].encKey,
                        WalletKeyOf(registry[k].addr.acct, registry[k].addr,
                                    registry[k].cid))
           = {ipfs[registry[k].cid].encryptedContent.key}

\* C6: every note in the local list has exactly one addNote submission the
\* relay accepted for its content identifier.
OwnerRecords(cid) ==
  {j \in 1..Len(registry) :
     registry[j].method = "addNote" /\ registry[j].cid = cid}
C6_OneOwnerRecordPerNote ==
  \A k \in 1..Len(savedNotes) :
    Cardinality(OwnerRecords(savedNotes[k].cid)) = 1

\* C7: the wallet key derived for an (address, cid) pair is the same key
\* whenever it is derived: the key a load derives equals the key under
\* which the registry record for the same pair was wrapped.
C7_SamePairSameKey ==
  ld.walletKey # Garbage
    => \A k \in 1..Len(registry) :
         registry[k].encKey.key.sig.msg = ld.walletKey.sig.msg
           => registry[k].encKey.key = ld.walletKey

\* C8: no load decrypts content with a key that an unwrap under the wrong
\* wallet key produced: every key used on the content is a content key.
C8_WrongKeyNeverUsed ==
  \A k \in 1..Len(ld.usedKeys) : ld.usedKeys[k] # Garbage

\* C9: a save whose collaborator step failed still ends saved: the note is
\* in the local list, the upload and the addNote record remain, and the
\* collaborator warning was shown.
C9_CollaboratorFailureIsolated ==
  (sv.pc = "idle" /\ sv.collabFailed)
    => /\ sv.result = "saved"
       /\ sv.warned
       /\ sv.cid \in Cids(savedNotes)

\* C10: a load over n records visits records 1..n in order whatever fails;
\* each record either fails, with exactly one failure reported, or is
\* loaded and then present in the local list.
C10_PerRecordIsolation ==
  LET n == Len(ld.records)
      ok == (1..Len(ld.visited)) \ ld.failed
  IN /\ ld.visited = [k \in 1..Len(ld.visited) |-> k]
     /\ ld.failures = Cardinality(ld.failed)
     /\ ld.failed \subseteq 1..n
     /\ ld.result = "loaded"
          => /\ Len(ld.visited) = n
             /\ Len(ld.loadedNotes) = Cardinality(ok)
             /\ \A k \in ok : ld.records[k].cid \in Cids(ld.loadedNotes)
             /\ \A k \in ok : ld.records[k].cid \in Cids(savedNotes)
C10_Witness ==
  /\ ld.result = "loaded"
  /\ Len(ld.records) = 3
  /\ ld.failed = {2}
  /\ Len(savedNotes) = 2

\* C11: the local list holds at most one StoredNote per content identifier,
\* whatever the interleaving of saves and loads.
C11_OneNotePerCid ==
  \A j, k \in 1..Len(savedNotes) :
    savedNotes[j].cid = savedNotes[k].cid => j = k

\* C12: once a load has set the latch, no step queries the registry, fetches
\* from storage or requests a signature for a load: every later invocation
\* of the load returns at the latch, and the local list, the load state and
\* the latch stay as they are.
C12_LatchedLoadIsNoOp ==
  [][loadedFromChain
       => /\ ld' = ld
          /\ savedNotes' = savedNotes
          /\ isLoadingNotes' = isLoadingNotes
          /\ loadedFromChain']_vars
C12_Witness ==
  /\ loadedFromChain
  /\ ld.result = "loaded"
  /\ lastToast = "Notes already loaded from blockchain"
  /\ Len(savedNotes) > 0

\* C13: a note is in the local list only if its save's upload, owner key
\* derivation and addNote submission all succeeded; a save that failed at
\* one of the three left the list without its note, ran no collaborator
\* step, and set isSaving back to false.
CollabRecords(cid) ==
  {j \in 1..Len(registry) :
     registry[j].method = "addCollaborator" /\ registry[j].cid = cid}
FailedSaveLeavesNoTrace ==
  (sv.pc = "idle" /\ sv.result = "failed" /\ ~sv.collabFailed)
    => /\ sv.cid \notin Cids(savedNotes)
       /\ ~isSaving
       /\ rt.tx.method # "addCollaborator"
       /\ CollabRecords(sv.cid) = {}
C13_AppendOnlyAfterAllSucceeded ==
  /\ \A k \in 1..Len(savedNotes) :
       /\ savedNotes[k].cid \in 1..Len(ipfs)
       /\ OwnerRecords(savedNotes[k].cid) # {}
  /\ FailedSaveLeavesNoTrace

\* C14: every StoredNote in the local list, appended by a save or merged
\* by a load, has isShared true exactly when its note was saved with a
\* collaborator. What the state shows of the save: a note with an
\* addCollaborator record was saved with a collaborator, and the inputs of
\* the latest save of this page are still held by the save. (Stated for the
\* lists that hold one note per content identifier, so that a duplicate
\* left by a load that overtook a save is not counted here.)
C14_SharedIffCollaborator ==
  C11_OneNotePerCid
    => \A k \in 1..Len(savedNotes) :
         LET n == savedNotes[k]
         IN /\ CollabRecords(n.cid) # {} => n.isShared
            /\ (sv.cid = n.cid /\ sv.result = "saved")
                 => (n.isShared <=> trim(sv.collab))

\* C15: a note saved by a signer and registered by addNote is recovered by
\* a load of the same signer for the same Safe: once the wallet has signed
\* for the record, the load has unwrapped the content key the save
\* generated, decrypted the uploaded content to the document the save
\* serialized, and built a StoredNote with the record's content identifier
\* and the title the save derived; when the load ends the note is in the
\* local list.
SavedDocument(cid) == ipfs[cid].encryptedContent.pt
SavedContentKey(cid) == ipfs[cid].encryptedContent.key
Recovered(notes, cid) ==
  \E k \in 1..Len(notes) :
    /\ notes[k].cid = cid
    /\ notes[k].title = Title(SavedDocument(cid).content)
C15_SaveLoadRoundTrip ==
  ld.walletKey # Garbage
    => LET cid == ld.walletKey.sig.msg.cid
       IN /\ Recovered(ld.loadedNotes, cid)
          /\ \E j \in 1..Len(ld.usedKeys) :
               ld.usedKeys[j] = SavedContentKey(cid)
          /\ ld.result = "loaded" => Recovered(savedNotes, cid)
C15_Witness ==
  /\ saveCount = 1
  /\ sv.result = "none"
  /\ ld.result = "loaded"
  /\ ld.walletKey = WalletKeyOf("a1", Addr("a1", "checksum"), 1)
  /\ Len(savedNotes) = 1
  /\ savedNotes[1].cid = 1
  /\ savedNotes[1].title = <<"H">>
  /\ savedNotes[1].nftGate # NoAddr     \* (no earlier session set a gate)

\* C16: after disconnect the session stays cleared until a new login is
\* started, also when a login was in flight at the disconnect. A login in
\* flight on a cleared session at "init" or "check" is one that a
\* disconnect overtook (a login started on a cleared session is at
\* "request" or "signer" until it sets the owner), and with no login in
\* flight only the start of a login may follow.
SessionCleared ==
  /\ ~isAuthenticated
  /\ ownerAddress = NoAddr
  /\ safeAddress = None
  /\ ~web3Provider
  /\ accountAbstractionKit = None
  /\ ~isDeployed
C16_DisconnectStaysCleared ==
  [][(SessionCleared /\ loginPc \in {"idle", "init", "check"})
       => SessionCleared']_vars

\* C17: the wait after the k-th rate-limited attempt of a call, k = 1, 2,
\* is 2^k seconds: 2 s, then 4 s, so a third attempt comes at least 6 s
\* after the first; no wait follows the third attempt and no wait is 8 s.
C17_BackoffWaits ==
  /\ Len(rt.waits) <= 2
  /\ \A k \in 1..Len(rt.waits) :
       rt.waits[k] = (IF k = 1 THEN 2000 ELSE 4000)
  /\ rt.attempt >= 1
       => Len(rt.waits) = (IF rt.status = "backoff" THEN rt.attempt
                           ELSE rt.attempt - 1)
  /\ rt.attempt = 3 => rt.waits[1] + rt.waits[2] >= 6000
C17_Witness ==
  /\ rt.status = "threw"
  /\ rt.attempt = 3
  /\ rt.error = "rate limiting"
  /\ rt.waits = <<2000, 4000>>

\* C18: an addCollaborator transaction for a content identifier is handed
\* to the relay only after the relay accepted the addNote transaction of
\* the same save for that identifier.
C18_CollaboratorAfterOwnerRecord ==
  /\ (rt.tx.method = "addCollaborator" /\ rt.attempt >= 1)
       => OwnerRecords(rt.tx.cid) # {}
  /\ \A k \in 1..Len(registry) :
       registry[k].method = "addCollaborator"
         => \E j \in OwnerRecords(registry[k].cid) : j < k

\* C19 (as claimed): while a load fetches a record from storage or waits
\* for the signature for it, the record's content identifier is not in the
\* local list.
C19_NoFetchForKnownCid ==
  ld.pc \in {"fetch", "sign"}
    => ld.records[ld.i].cid \notin Cids(savedNotes)
\* C19 (amended): a load visits every record the registry listed, whether
\* or not its content identifier is in the local list; the identifiers the
\* list already holds are skipped at the merge only: the step that ends
\* the load puts the new notes in front of the list as it was, and none of
\* them has an identifier the list held.
C19_KnownCidsSkippedAtMerge ==
  [][(ld.pc # "idle" /\ ld'.pc = "idle" /\ ld'.result = "loaded")
       => LET added == Len(savedNotes') - Len(savedNotes)
          IN /\ Len(ld'.visited) = Len(ld'.records)
             /\ added >= 0
             /\ SubSeq(savedNotes', added + 1, Len(savedNotes')) = savedNotes
             /\ \A k \in 1..added :
                  savedNotes'[k].cid \notin Cids(savedNotes)]_vars
C19_Witness ==
  /\ ld.result = "loaded"
  /\ Len(ld.loadedNotes) = 1
  /\ ld.loadedNotes[1].cid \in Cids(ld.snap)
  /\ Len(savedNotes) = 1

\* C20: the wallet is asked for each (recipient, note) signature exactly
\* once: no save and no load asks twice for the same message; a save
\* without collaborator that uploaded its note asks exactly once (for the
\* owner), a save with collaborator at most twice (owner, then
\* collaborator); a load over n records asks once for each record whose
\* fetch succeeded, so at most n times; a refused signature is not asked
\* for again.
NoRepeat(seq) == \A j, k \in 1..Len(seq) : seq[j] = seq[k] => j = k
C20_OneSignatureRequestPerPair ==
  /\ NoRepeat(sv.asked)
  /\ NoRepeat(ld.asked)
  /\ Len(sv.asked) <= (IF trim(sv.collab) THEN 2 ELSE 1)
  /\ sv.cid # 0 => /\ Len(sv.asked) >= 1
                   /\ sv.asked[1] = Message(sv.owner, sv.cid)
  /\ Len(sv.asked) = 2
       => sv.asked[2] = Message(AddrOf(sv.collab), sv.cid)
  /\ Len(ld.asked) = Cardinality(ld.fetched)
  /\ ld.fetched \subseteq 1..Len(ld.records)
  /\ \A k \in 1..Len(ld.asked) :
       \E i \in ld.fetched :
         ld.asked[k] = Message(ld.owner, ld.records[i].cid)
\* (a save with collaborator that asked twice, then a load over two
\* records, both fetched, the signature for the second refused)
C20_Witness ==
  /\ sv.result = "saved"
  /\ trim(sv.collab)
  /\ Len(sv.asked) = 2
  /\ ld.result = "loaded"
  /\ Len(ld.records) = 2
  /\ ld.fetched = {1, 2}
  /\ ld.failed = {2}
  /\ ld.walletKey.sig.msg.cid = 1
  /\ Len(ld.asked) = 2

\* C21: a load lists the registry under the Safe address, never under the
\* owner's own address: the records it works on are the ones registered
\* by its Safe, and it reports no notes only when that Safe registered
\* none; every wallet key it asks for is for the owner address and the
\* content identifier of one of those records.
LoadHasQueried == ld.pc \in {"fetch", "sign"} \/ ld.result = "loaded"
C21_QueryBySafeKeyByOwner ==
  /\ LoadHasQueried
       => /\ ld.safe \in Accounts
          /\ ld.records = getNotes(ld.safe)
          /\ \A k \in 1..Len(ld.records) : ld.records[k].safe = ld.safe
  /\ (ld.pc = "idle" /\ ld.result = "empty") => getNotes(ld.safe) = << >>
  /\ \A k \in 1..Len(ld.asked) :
       /\ ld.asked[k].addr = toLowerCase(ld.owner)
       /\ ld.asked[k].cid \in Cids(ld.records)
  /\ ld.walletKey # Garbage
       => /\ ld.walletKey.sig.msg.addr = toLowerCase(ld.owner)
          /\ ld.walletKey.sig.msg.cid \in Cids(ld.records)
C21_Witness ==
  /\ ld.result = "loaded"
  /\ ld.safe = "a1"
  /\ Len(ld.records) = 3
  /\ Len(ld.asked) = 3
  /\ ld.walletKey.sig.msg = Message(Addr("a1", "checksum"), 3)

\* C22: within a load the records are worked on one at a time in registry
\* order: while record i is fetched or its signature awaited, records
\* 1..i-1 have each been loaded or have failed, record i has not, no
\* record after i has been touched, and the only request of the load that
\* is outstanding is the fetch, or else the signature, for record i.
Settled(k) ==
  k \in ld.failed \/ ld.records[k].cid \in Cids(ld.loadedNotes)
SignaturesOutstanding == {k \in ld.fetched : ~Settled(k)}
C22_OneRecordAtATime ==
  /\ ld.pc \in {"fetch", "sign"}
       => /\ ld.i \in 1..Len(ld.records)
          /\ ld.visited = [k \in 1..ld.i |-> k]
          /\ \A k \in 1..(ld.i - 1) : Settled(k)
          /\ ~Settled(ld.i)
          /\ ld.fetched \subseteq 1..ld.i
          /\ SignaturesOutstanding
               = (IF ld.pc = "sign" THEN {ld.i} ELSE {})
  /\ ld.pc = "idle" => SignaturesOutstanding = {}
C22_Witness ==
  /\ ld.pc = "sign"
  /\ ld.i = 3
  /\ ld.failed = {1}
  /\ Cids(ld.loadedNotes) = {2}

\* C24: a relayTransaction call has at most one submission the relay
\* accepted, and it is the last one of the call: the call returns there and
\* submits no more, so no record is registered twice by retrying; a call
\* makes between 0 and 3 submissions.
C24_AtMostOneAcceptedSubmission ==
  /\ Len(rt.outcomes) \in 0..3
  /\ \A k \in 1..Len(rt.outcomes) :
       rt.outcomes[k] = "ok"
         => /\ k = Len(rt.outcomes)
            /\ rt.status = "returned"
            /\ rt.attempt = k
  /\ rt.status = "returned" => rt.outcomes[Len(rt.outcomes)] = "ok"
  /\ \A j, k \in 1..Len(registry) : registry[j] = registry[k] => j = k
C24_Witness ==
  /\ rt.status = "returned"
  /\ rt.outcomes = <<"429", "Too many requests", "ok">>
  /\ rt.tx.method = "addCollaborator"
  /\ Len(registry) = 2

\* C26: whenever no login is in flight, an authenticated session has its
\* Safe address, its provider and its relay kit set; a login that failed
\* after the account was obtained left isAuthenticated false.
C26_AuthenticatedMeansInitialized ==
  (loginPc = "idle" /\ isAuthenticated)
    => /\ safeAddress # None
       /\ web3Provider
       /\ accountAbstractionKit # None

\* C28: a load whose registry query returned sets the latch, whatever
\* became of its records, so that no record that failed is tried again;
\* a load whose query failed leaves the latch unset, the list as it was
\* and isLoadingNotes false, so that a later load can start.
C28_LatchSetUnlessQueryFailed ==
  /\ (ld.pc = "idle" /\ ld.result \in {"loaded", "empty"})
       => loadedFromChain
  /\ loadedFromChain
       => /\ ld.pc = "idle"
          /\ ld.result \in {"loaded", "empty"}
  /\ (ld.pc = "idle" /\ ld.result = "failed")
       => /\ ~loadedFromChain
          /\ ~isLoadingNotes
          /\ savedNotes = ld.snap
          /\ ld.records = << >>
C28_Witness ==
  /\ ld.result = "loaded"
  /\ Len(ld.records) = 3
  /\ ld.failed = {1, 2, 3}
  /\ loadedFromChain
  /\ savedNotes = << >>

\* C27: no operation resets the latch or takes a note out of the local
\* list: the latch stays set once set, the list only grows at its front,
\* and with the latch set no step starts a load, also after a disconnect
\* and a login with the same or another account.
C27_LatchAndListSurviveReconnect ==
  [][/\ loadedFromChain => (loadedFromChain' /\ ld' = ld)
     /\ Len(savedNotes') >= Len(savedNotes)
     /\ SubSeq(savedNotes', Len(savedNotes') - Len(savedNotes) + 1,
               Len(savedNotes')) = savedNotes]_vars
\* (account a2 connected after a1's load, a1's notes still listed, and the
\* load invoked for a2 returned at the latch)
C27_Witness ==
  /\ loadedFromChain
  /\ Len(savedNotes) = 3
  /\ isAuthenticated
  /\ ownerAddress = Addr("a2", "checksum")
  /\ safeAddress = "a2"
  /\ ld.safe = "a1"
  /\ lastToast = "Notes already loaded from blockchain"

\* the deploySafe calls: in progress, and made at all
DeployInProgress(r) == cd[r].pc \in {"precheck", "relay", "poll"}
DeploySafeCalled(r) ==
  \/ DeployInProgress(r)
  \/ cd[r].pc = "done" /\ cd[r].exit # "skipped"

\* C23: a deploySafe call that handed its transaction to the relay and
\* left the poll loop made at most 10 status checks, all 10 when none
\* reported deployed, and resolved with the Safe address whether or not
\* the deployment was confirmed.
C23_PollBoundedAndResolves ==
  \A r \in Runs :
    (cd[r].pc = "done" /\ cd[r].exit \in {"confirmed", "pending"}) =>
      /\ cd[r].attempts <= maxAttempts
      /\ cd[r].exit = "pending" => cd[r].attempts = maxAttempts
      /\ cd[r].result = cd[r].safe

\* C25: whenever no deploySafe call is in progress, deploySafeLoading is
\* false.
C25_FlagClearWhenNoCallInProgress ==
  (\A r \in Runs : ~DeployInProgress(r)) => ~deploySafeLoading

\* C29: over the lifetime of the page at most one checkAndDeploy of the
\* auto-deploy effect calls deploySafe.
C29_AtMostOneAutoDeploy ==
  Cardinality({r \in Runs : cd[r].origin = "effect" /\ DeploySafeCalled(r)})
    <= 1

\* C30: a deploySafe call made while the Safe address has code hands no
\* transaction to the relay, makes no poll, and resolves with the Safe
\* address at its already-deployed exit.
C30_NoRelayWhenCodePresent ==
  \A r \in Runs :
    cd[r].present =>
      /\ cd[r].relays = 0
      /\ cd[r].attempts = 0
      /\ cd[r].pc = "done" => (cd[r].exit = "already"
                               /\ cd[r].result = cd[r].safe)

====
